---- MODULE Spec2Model ----
(***************************************************************************)
(* A model of scraper/webscraper.py: the Webscraper object (stored URL(s), *)
(* stored response(s), stored parsed document(s), the verb flags, the      *)
(* shared requests.Session) and its operations get / put / delete / head / *)
(* options / post / patch / parse.  A batch get() runs its workers as      *)
(* interleaved steps over the shared session.                              *)
(*                                                                         *)
(* Values of mixed Python type are tagged records [type, val] so that      *)
(* they stay comparable: val is always a sequence.                         *)
(***************************************************************************)
EXTENDS Integers, Sequences, FiniteSets, TLC

\* ---- bounds of the model ------------------------------------------------
MaxCpu == 3        \* os.cpu_count() ranges over 1..MaxCpu
MaxBatch == 2      \* longest URL list handed to get()
MaxRequests == 2   \* number of request calls (all verbs) on one Webscraper

\* ---- inputs -------------------------------------------------------------
\* A URL is a sequence of characters; " " is whitespace.  URLs handed to get().
UrlInputs == { <<"a">>, <<" ", "b", " ">> }

\* URLs handed to put / delete / head / options / post / patch, which send
\* and store them as they are.
SendInputs == { <<" ", "c">> }

\* What the network does with one request: a response with ok status, a
\* response with a non-success status, or a requests RequestException.
Outcomes == {"ok", "bad", "err"}

\* Arguments of get() that are neither str nor list.
InvalidInputs == {"int", "NoneType"}

RECURSIVE SeqsUpTo(_, _)
SeqsUpTo(S, n) ==
    IF n = 0 THEN { <<>> }
    ELSE LET shorter == SeqsUpTo(S, n - 1)
         IN  shorter \cup { Append(s, x) : s \in shorter, x \in S }

ListInputs == SeqsUpTo(UrlInputs, MaxBatch)

\* ---- values -------------------------------------------------------------
AllVerbs == {"DELETE", "GET", "PATCH", "POST", "PUT", "OPTIONS", "HEAD"}

\* The keys of the _http_request dictionary built by __init__.
DeclaredVerbs == {"DELETE", "GET", "PATCH", "POST", "PUT", "OPTIONS"}

NoneValue == [type |-> "None", val |-> <<>>]

\* The value a request leaves behind: a requests.Response (kind "ok" or
\* "bad") or a RequestException (kind "err"), for the URL it was sent to.
Response(verb, u, o) == [kind |-> o, url |-> u, verb |-> verb]

Single(x) == [type |-> "single", val |-> <<x>>]
ListOf(s) == [type |-> "list", val |-> s]

\* ---- pure functions -----------------------------------------------------
RECURSIVE LStrip(_)
LStrip(s) ==
    IF s = <<>> THEN s
    ELSE IF Head(s) = " " THEN LStrip(Tail(s)) ELSE s

RECURSIVE RStrip(_)
RStrip(s) ==
    IF s = <<>> THEN s
    ELSE IF s[Len(s)] = " " THEN RStrip(SubSeq(s, 1, Len(s) - 1)) ELSE s

\* str.strip()
Strip(s) == RStrip(LStrip(s))

StripAll(us) == [i \in 1..Len(us) |-> Strip(us[i])]

\* self._max_threads = os.cpu_count()*2 - 4
MaxThreads(c) == c * 2 - 4

\* ThreadPoolExecutor(max_workers=n) raises ValueError unless n > 0.
PoolSizeValid(n) == n > 0

\* The value _load_url returns for a request with network outcome o: the
\* response, or the exception itself (res = e).
LoadUrlDropsError(u, o) ==
    IF o = "err" THEN [kind |-> "none", url |-> u, verb |-> "GET"]
    ELSE Response("GET", u, o)

LoadUrl(u, o) == Response("GET", u, o)

\* The filter of _load_urls: isinstance(res, RequestException) -> skip;
\* res.ok -> keep; else skip.
Keeps(r) == r.kind # "err" /\ r.kind = "ok"

RECURSIVE FilterIdx(_, _)
\* The indices i (ascending) of responses that the filter loop keeps.
FilterIdx(responses, i) ==
    IF i > Len(responses) THEN <<>>
    ELSE IF Keeps(responses[i])
         THEN <<i>> \o FilterIdx(responses, i + 1)
         ELSE FilterIdx(responses, i + 1)

\* BeautifulSoup(res.content, parser, from_encoding=res.encoding)
ParseResponse(r) == [soup |-> r.url, from |-> r.verb, status |-> r.kind]

\* The guard of parse(): self._http_request["GET"].
ParseGuardAnyVerb(h) == \E v \in DOMAIN h : h[v]

ParseGuard(h) == h["GET"]

\* self._http_request[verb] = True (adds the key when it is missing).
SetFlag(h, verb) ==
    [v \in (DOMAIN h) \cup {verb} |-> IF v = verb THEN TRUE ELSE h[v]]

\* ---- state --------------------------------------------------------------
VARIABLES
    cpu,           \* os.cpu_count() of the machine
    url,           \* self._url
    res,           \* self._res
    data,          \* self._data
    http_request,  \* self._http_request
    sess,          \* self._sess: "fresh", "open" (holds connections), "closed"
    pc,            \* "idle", or "batch" while get(list) runs its pool
    tasks,         \* the pool's tasks while a batch get runs: per URL of the
                   \* list its state, the URL as given, the URL requested
                   \* and the outcome of the request
    last,          \* the last API call: op, type of its argument, outcome of
                   \* its one request, and how the call ended
    getHist,       \* history of get(): "none" (never called), "failed" (every
                   \* call was rejected or stored an exception), "other"
    calls          \* number of request calls made (parse() is not counted)

vars == <<cpu, url, res, data, http_request, sess, pc, tasks, last,
          getHist, calls>>

NoCall == [op |-> "none", arg |-> "none", net |-> "none", outcome |-> "none"]

Call(op, arg, net, outcome) ==
    [op |-> op, arg |-> arg, net |-> net, outcome |-> outcome]

Init ==
    /\ cpu \in 1..MaxCpu
    /\ url = [type |-> "unset", val |-> <<>>]
    /\ res = NoneValue
    /\ data = NoneValue
    /\ http_request = [v \in DeclaredVerbs |-> FALSE]
    /\ sess = "fresh"
    /\ pc = "idle"
    /\ tasks = <<>>
    /\ last = NoCall
    /\ getHist = "none"
    /\ calls = 0

\* The Webscraper is used by one caller: no call starts while get(list) runs.
Idle == pc = "idle"

CanCall == Idle /\ calls < MaxRequests

\* The history of get() after one more call that was rejected or failed.
Failed(h) == IF h = "other" THEN "other" ELSE "failed"

\* ---- get(url: str) ------------------------------------------------------
GetStr(u, o) ==
    /\ CanCall
    /\ LET r == LoadUrl(Strip(u), o)
       IN  /\ url' = [type |-> "str", val |-> <<Strip(u)>>]
           /\ res' = Single(r)
           /\ http_request' = SetFlag(http_request, "GET")
           /\ sess' = "closed"
           /\ last' = Call("GET", "str", o, "returned")
           /\ getHist' = IF o = "err" THEN Failed(getHist) ELSE "other"
           /\ calls' = calls + 1
           /\ UNCHANGED <<cpu, data, pc, tasks>>

\* ---- get(x), x neither str nor list -------------------------------------
GetInvalid(x) ==
    /\ CanCall
    /\ url' = [type |-> x, val |-> <<>>]
    /\ last' = Call("GET", x, "none", "AssertionError")
    /\ getHist' = Failed(getHist)
    /\ calls' = calls + 1
    /\ UNCHANGED <<cpu, res, data, http_request, sess, pc, tasks>>

\* ---- get(urls: list) ----------------------------------------------------
\* The call up to the creation of the pool and the submission of the tasks.
GetList(us) ==
    /\ CanCall
    /\ url' = ListOf(StripAll(us))
    /\ getHist' = "other"
    /\ calls' = calls + 1
    /\ IF PoolSizeValid(MaxThreads(cpu))
       THEN /\ pc' = "batch"
            /\ tasks' = [i \in 1..Len(us) |->
                           [st |-> "queued", arg |-> us[i],
                            url |-> StripAll(us)[i], out |-> "none"]]
            /\ last' = Call("GET", "list", "none", "running")
       ELSE /\ last' = Call("GET", "list", "none", "ValueError")
            /\ UNCHANGED <<pc, tasks>>
    /\ UNCHANGED <<cpu, res, data, http_request, sess>>

InFlight == {i \in 1..Len(tasks) : tasks[i].st = "inflight"}

\* A pool thread takes the next task of the FIFO queue, enters
\* `with self._sess` and sends the request on the shared session.
WorkerStart(i) ==
    /\ pc = "batch"
    /\ i \in 1..Len(tasks)
    /\ tasks[i].st = "queued"
    /\ \A j \in 1..(i - 1) : tasks[j].st # "queued"
    /\ Cardinality(InFlight) < MaxThreads(cpu)
    /\ tasks' = [tasks EXCEPT ![i].st = "inflight"]
    /\ sess' = "open"
    /\ UNCHANGED <<cpu, url, res, data, http_request, pc, last, getHist, calls>>

\* The request of task i ends with a response or a RequestException, and the
\* thread leaves its `with self._sess` block: Session.__exit__ closes the
\* shared session, whatever else is in flight on it.
WorkerFinish(i, o) ==
    /\ pc = "batch"
    /\ i \in 1..Len(tasks)
    /\ tasks[i].st = "inflight"
    /\ tasks' = [tasks EXCEPT ![i].st = "done", ![i].out = o]
    /\ sess' = "closed"
    /\ UNCHANGED <<cpu, url, res, data, http_request, pc, last, getHist, calls>>

\* The responses of executor.map, in the order of the URLs.
Responses(ts) == [i \in 1..Len(ts) |-> LoadUrl(ts[i].url, ts[i].out)]

\* The filter loop of _load_urls over the collected responses.
Filtered(urls, responses) ==
    LET kept == FilterIdx(responses, 1)
    IN  [res |-> [k \in 1..Len(kept) |-> responses[kept[k]]],
         urls |-> [k \in 1..Len(kept) |-> urls[kept[k]]]]

\* All tasks are done: the filter loop, self._url = _urls, and the end of get.
GetListFinish ==
    /\ pc = "batch"
    /\ \A i \in 1..Len(tasks) : tasks[i].st = "done"
    /\ LET f == Filtered(url.val, Responses(tasks))
       IN  /\ res' = ListOf(f.res)
           /\ url' = ListOf(f.urls)
    /\ http_request' = SetFlag(http_request, "GET")
    /\ last' = [last EXCEPT !.outcome = "returned"]
    /\ pc' = "idle"
    /\ tasks' = <<>>
    /\ UNCHANGED <<cpu, data, sess, getHist, calls>>

\* ---- put / delete / head / options / post / patch -----------------------
\* One request of the given verb inside `with self._sess`; an exception of
\* the request leaves the method before the response and the flag are set.
Send(verb, u, o) ==
    /\ CanCall
    /\ url' = [type |-> "str", val |-> <<u>>]
    /\ sess' = "closed"
    /\ calls' = calls + 1
    /\ IF o = "err"
       THEN /\ last' = Call(verb, "str", o, "RequestException")
            /\ UNCHANGED <<res, http_request>>
       ELSE /\ res' = Single(Response(verb, u, o))
            /\ http_request' = SetFlag(http_request, verb)
            /\ last' = Call(verb, "str", o, "returned")
    /\ UNCHANGED <<cpu, data, pc, tasks, getHist>>

Put(u, o) == Send("PUT", u, o)
Delete(u, o) == Send("DELETE", u, o)
HeadRequest(u, o) == Send("HEAD", u, o)
Options(u, o) == Send("OPTIONS", u, o)
Post(u, o) == Send("POST", u, o)
Patch(u, o) == Send("PATCH", u, o)

\* ---- parse() ------------------------------------------------------------
Parse ==
    /\ Idle
    /\ IF ~ParseGuard(http_request)
       THEN /\ last' = Call("parse", "none", "none", "AssertionError")
            /\ UNCHANGED data
       ELSE IF res.type = "list"
            THEN /\ data' = ListOf([i \in 1..Len(res.val) |->
                                      ParseResponse(res.val[i])])
                 /\ last' = Call("parse", "none", "none", "returned")
            ELSE IF res.type = "single" /\ res.val[1].kind \in {"ok", "bad"}
                 THEN /\ data' = Single(ParseResponse(res.val[1]))
                      /\ last' = Call("parse", "none", "none", "returned")
                 ELSE \* an exception (or None) has no .content
                      /\ last' = Call("parse", "none", "none", "AttributeError")
                      /\ UNCHANGED data
    /\ UNCHANGED <<cpu, url, res, http_request, sess, pc, tasks, getHist, calls>>

Next ==
    \/ \E u \in UrlInputs, o \in Outcomes : GetStr(u, o)
    \/ \E x \in InvalidInputs : GetInvalid(x)
    \/ \E us \in ListInputs : GetList(us)
    \/ \E i \in 1..MaxBatch : WorkerStart(i)
    \/ \E i \in 1..MaxBatch, o \in Outcomes : WorkerFinish(i, o)
    \/ GetListFinish
    \/ \E u \in SendInputs, o \in Outcomes : Put(u, o)
    \/ \E u \in SendInputs, o \in Outcomes : Delete(u, o)
    \/ \E u \in SendInputs, o \in Outcomes : HeadRequest(u, o)
    \/ \E u \in SendInputs, o \in Outcomes : Options(u, o)
    \/ \E u \in SendInputs, o \in Outcomes : Post(u, o)
    \/ \E u \in SendInputs, o \in Outcomes : Patch(u, o)
    \/ Parse

Spec == Init /\ [][Next]_vars

\* ---- properties ---------------------------------------------------------
SendVerbs == {"PUT", "DELETE", "HEAD", "OPTIONS", "POST", "PATCH"}

\* The flag of verb v reads true (a missing key counts as not set).
FlagSet(v) == v \in DOMAIN http_request /\ http_request[v]

\* C1: as long as get() was never called, a parse() call fails with
\* AssertionError and leaves the parsed document, the response and the verb
\* flags as they were.
C1_ParseWithoutGet ==
    [][ (Idle /\ getHist = "none" /\ last'.op = "parse")
          => /\ last'.outcome = "AssertionError"
             /\ data' = data
             /\ res' = res
             /\ http_request' = http_request ]_vars

C1_Witness ==
    /\ getHist = "none"
    /\ res.type = "single"
    /\ last.op = "parse"
    /\ last.outcome = "AssertionError"

\* The step that ends a get(list) call, by returning or by raising.
EndsBatchGet ==
    /\ last'.op = "GET"
    /\ last'.arg = "list"
    /\ pc' = "idle"
    /\ (calls' = calls + 1 \/ pc = "batch")

\* What a finished get(list) has stored, given the outcomes of the requests
\* in ts: the ok responses in the order of their URLs, and next to each the
\* stripped URL that produced it.
StoredIsOkResponsesOf(ts, r, u) ==
    LET ok == {i \in 1..Len(ts) : ts[i].out = "ok"}
        rank(i) == Cardinality({j \in ok : j <= i})
    IN  /\ r.type = "list"
        /\ u.type = "list"
        /\ Len(r.val) = Cardinality(ok)
        /\ Len(u.val) = Len(r.val)
        /\ \A i \in ok : /\ r.val[rank(i)] = Response("GET", Strip(ts[i].arg), "ok")
                         /\ u.val[rank(i)] = Strip(ts[i].arg)

\* C2: after get(list) the stored responses are exactly the ok responses, in
\* the order of their URLs, and the stored URL list holds, entry by entry,
\* the stripped URLs that produced them.
C2_BatchGetStoresOkResponses ==
    [][ EndsBatchGet => StoredIsOkResponsesOf(tasks, res', url') ]_vars

\* The same for the calls that got their worker pool (pool size > 0).
BatchGetWithPoolStoresOkResponses ==
    [][ (EndsBatchGet /\ pc = "batch")
          => StoredIsOkResponsesOf(tasks, res', url') ]_vars

\* C3: a single-URL get() returns normally whatever the request did, and
\* stores the outcome itself: the exception of a transport failure, the
\* response of a non-success status.
C3_SingleGetStoresOutcome ==
    (last.op = "GET" /\ last.arg = "str")
      => /\ last.outcome = "returned"
         /\ res.type = "single"
         /\ url.type = "str"
         /\ res.val[1] = Response("GET", url.val[1], last.net)
         /\ Strip(url.val[1]) = url.val[1]

C3_Witness ==
    /\ last.op = "GET"
    /\ last.arg = "str"
    /\ last.net = "err"
    /\ last.outcome = "returned"
    /\ res = Single(Response("GET", <<"b">>, "err"))

\* C4: while no get() has succeeded (every get() so far was rejected or
\* stored an exception), parse() fails with AssertionError.
C4_ParseBeforeSuccessfulGet ==
    (last.op = "parse" /\ getHist \in {"none", "failed"})
      => last.outcome = "AssertionError"

\* C5: a get() rejected for the type of its argument issues no request and
\* leaves the stored URL(s), response, parsed document and verb flags as
\* they were.
C5_RejectedGetChangesNothing ==
    [][ (Idle /\ calls' = calls + 1
         /\ last'.op = "GET" /\ last'.outcome = "AssertionError")
          => /\ url' = url
             /\ res' = res
             /\ data' = data
             /\ http_request' = http_request
             /\ sess' = sess ]_vars

\* C6: a put / delete / head / options / post / patch call returns normally
\* and the stored response is the outcome of its request, an exception
\* included.
C6_SendStoresOutcome ==
    (last.op \in SendVerbs)
      => /\ last.outcome = "returned"
         /\ res = Single(Response(last.op, url.val[1], last.net))

\* C7: whatever parse() parses is a response that a get() stored.
C7_ParseOnlyGetResponses ==
    (last.op = "parse" /\ last.outcome = "returned")
      => \A i \in 1..Len(data.val) : data.val[i].from = "GET"

\* C8: no flag is set before the first request, and after a request call
\* has returned the flag of its verb is set and no other flag is.
C8_FlagsRecordLastVerb ==
    /\ calls = 0 => \A v \in AllVerbs : ~FlagSet(v)
    /\ (last.op \in AllVerbs /\ last.outcome = "returned")
         => \A v \in AllVerbs : FlagSet(v) <=> (v = last.op)

\* C9: no worker of a batch get() closes the shared session (by leaving its
\* `with self._sess` block) while the request of another worker is in flight.
C9_NoCloseUnderRequest ==
    [][ (pc = "batch" /\ pc' = "batch")
          => \A i \in 1..Len(tasks) :
               (tasks[i].st = "inflight" /\ tasks'[i].st = "done")
                 => \A j \in 1..Len(tasks) :
                      j # i => tasks[j].st # "inflight" ]_vars

\* C10: the pool size fixed at construction is a valid pool size (>= 1) on
\* every machine, so no get(list) fails to create its worker pool.
C10_PoolSizeValid ==
    (last.op = "GET" /\ last.arg = "list")
      => /\ PoolSizeValid(MaxThreads(cpu))
         /\ last.outcome # "ValueError"

====
